---- MODULE Spec2Model ----
(***************************************************************************)
(* Red Light / Green Light: the game store (zustand store with the        *)
(* actions addPlayer .. updateTimer), the 100ms timer effect of App.tsx   *)
(* and the per-frame tracking callback of Camera.tsx.                     *)
(*                                                                         *)
(* The store is modelled as a record; every store action is an operator   *)
(* from store record to store record, composed the way the handlers call  *)
(* each other through get()/set().  A TLA+ action is one complete         *)
(* callback (one timer tick, one animation frame, one click).             *)
(***************************************************************************)
EXTENDS Integers, Sequences, FiniteSets, TLC

\* ------------------------------------------------------------------------
\* Bounds of the model
\* ------------------------------------------------------------------------
MaxPlayers == 2
\* the timer is followed through rounds 1..MaxRound
MaxRound == 2

\* ------------------------------------------------------------------------
\* Program constants
\* ------------------------------------------------------------------------
TickMs == 100
RoundAward == 5
EndGameAward == 10
RoundWrap == 20
InitThreshold == 30
InitDuration == 5000

Null == "null"
\* findColorPosition returned null
NoPos == [x |-> -1, y |-> -1]

\* `player${players.length + 1}` of addNewPlayer
PlayerName == <<"player1", "player2", "player3", "player4", "player5">>

Origin == [x |-> 0, y |-> 0]

\* Positions a detection reports: two points 30px apart (an 18-24-30
\* triangle), so that a displacement is 0 or exactly the medium threshold.
Points == {Origin, [x |-> 18, y |-> 24]}

\* Values of the two phase-duration settings (whole seconds) that the operator
\* applies; games are started with these durations.
DurationSecs == {1}

\* Values of the movement-threshold slider that the operator picks in SETUP.
ThresholdChoices == {5, 30}

DefaultColor == <<200, 50, 50>>

VARIABLES
    phase, difficulty, currentRound, cameraReady, detectionThreshold,
    playerColors, players, activePlayers, leadingPlayer, timerActive,
    timeRemaining, freezeDuration, moveDuration, gameActive, winner,
    trkRunning, trkPhase, trkPlayers, trkColors,
    evals, ended, freezeMoved,
    prevPositions, detection, returned, found, frames, stream,
    target, frame, hasPrev, colorMatches,
    pending, orphans, animationFrame, frameCount, outcome, thrown

storeVars == <<phase, difficulty, currentRound, cameraReady, detectionThreshold,
    playerColors, players, activePlayers, leadingPlayer, timerActive,
    timeRemaining, freezeDuration, moveDuration, gameActive, winner>>

trkVars == <<trkRunning, trkPhase, trkPlayers, trkColors>>

ghostVars == <<evals, ended, freezeMoved>>

\* Camera.tsx: the prevPositions table of the mounted Camera component, and
\* history of its use: the detections of the last processed frame, what
\* findColorPosition returned for each player id in it, the ids that have been
\* detected at least once, the number of processed frames, and the detection a
\* constant stream delivers.
camVars == <<prevPositions, detection, returned, found, frames, stream>>

\* One scan of findColorPosition: the target colour, the sampled pixels of the
\* frame, whether a previous position exists, and the colorMatches produced.
scanVars == <<target, frame, hasPrev, colorMatches>>

\* The animation-frame loop of the tracking effect: the callbacks of the
\* running loop the browser holds, those of loops that were stopped, the
\* animationFrame variable of the running closure, frameCount modulo 2, and
\* history: what the last callback did, and whether the running loop has
\* caught an exception.
loopVars == <<pending, orphans, animationFrame, frameCount, outcome, thrown>>

vars == <<storeVars, trkVars, ghostVars, camVars, scanVars, loopVars>>

\* The store as one record.  evals and ended are history fields: the number
\* of Motion Evaluator bodies executed by the running callback, and whether
\* endGame has run since the game was started.
Store == [phase |-> phase, difficulty |-> difficulty, currentRound |-> currentRound,
          cameraReady |-> cameraReady, detectionThreshold |-> detectionThreshold,
          playerColors |-> playerColors, players |-> players,
          activePlayers |-> activePlayers, leadingPlayer |-> leadingPlayer,
          timerActive |-> timerActive, timeRemaining |-> timeRemaining,
          freezeDuration |-> freezeDuration, moveDuration |-> moveDuration,
          gameActive |-> gameActive, winner |-> winner,
          evals |-> 0, ended |-> ended]

Commit(s) ==
    /\ phase' = s.phase
    /\ difficulty' = s.difficulty
    /\ currentRound' = s.currentRound
    /\ cameraReady' = s.cameraReady
    /\ detectionThreshold' = s.detectionThreshold
    /\ playerColors' = s.playerColors
    /\ players' = s.players
    /\ activePlayers' = s.activePlayers
    /\ leadingPlayer' = s.leadingPlayer
    /\ timerActive' = s.timerActive
    /\ timeRemaining' = s.timeRemaining
    /\ freezeDuration' = s.freezeDuration
    /\ moveDuration' = s.moveDuration
    /\ gameActive' = s.gameActive
    /\ winner' = s.winner
    /\ evals' = s.evals
    /\ ended' = s.ended

\* ------------------------------------------------------------------------
\* Helpers of the store
\* ------------------------------------------------------------------------

\* calculateMovement returns sqrt(dx^2 + dy^2); the model keeps the square.
calculateMovementSq(current, previous) ==
    (current.x - previous.x) * (current.x - previous.x)
        + (current.y - previous.y) * (current.y - previous.y)

\* Mutant of MovementOver: the comparison written as >=.
MovementOverOrEqual(movementSq, threshold) ==
    IF threshold < 0 THEN TRUE ELSE movementSq >= threshold * threshold

\* movement > detectionThreshold, for movement = sqrt(movementSq) >= 0.
MovementOver(movementSq, threshold) ==
    IF threshold < 0 THEN TRUE ELSE movementSq > threshold * threshold

getDetectionThreshold(level) ==
    CASE level = "easy" -> 50
      [] level = "medium" -> 30
      [] level = "hard" -> 15
      [] OTHER -> 30

getPhaseDurations(s, level) ==
    CASE level = "easy" -> [move |-> 7000, freeze |-> 5000]
      [] level = "medium" -> [move |-> 5000, freeze |-> 5000]
      [] level = "hard" -> [move |-> 3000, freeze |-> 5000]
      [] level = "custom" -> [move |-> s.moveDuration, freeze |-> s.freezeDuration]
      [] OTHER -> [move |-> 5000, freeze |-> 5000]

Survivor(p) == p.active /\ ~p.eliminated

IndexOf(ps, id) ==
    IF \E i \in DOMAIN ps : ps[i].id = id
    THEN CHOOSE i \in DOMAIN ps : ps[i].id = id /\ \A j \in 1..(i - 1) : ps[j].id # id
    ELSE 0

RECURSIVE FilterSeq(_, _)
FilterSeq(ps, keep) ==
    IF ps = <<>> THEN <<>>
    ELSE IF keep[1] THEN <<ps[1]>> \o FilterSeq(Tail(ps), Tail(keep))
         ELSE FilterSeq(Tail(ps), Tail(keep))

\* [...players].sort((a, b) => b.score - a.score)[0].id : the sort is stable,
\* so the first player holding the maximal score leads.
determineLeader(s) ==
    IF Len(s.players) = 0 THEN [s EXCEPT !.leadingPlayer = Null]
    ELSE LET top == CHOOSE i \in DOMAIN s.players :
                        /\ \A j \in DOMAIN s.players : s.players[j].score <= s.players[i].score
                        /\ \A j \in 1..(i - 1) : s.players[j].score < s.players[i].score
         IN [s EXCEPT !.leadingPlayer = s.players[top].id]


\* ------------------------------------------------------------------------
\* Store actions (record -> record)
\* ------------------------------------------------------------------------

NewPlayer(id) ==
    [id |-> id, active |-> TRUE, score |-> 0, position |-> Origin,
     lastPosition |-> Origin, eliminated |-> FALSE]

addPlayer(s, id) ==
    IF \E i \in DOMAIN s.players : s.players[i].id = id THEN s
    ELSE LET colors == IF id \in DOMAIN s.playerColors THEN s.playerColors
                       ELSE [k \in DOMAIN s.playerColors \cup {id} |->
                                IF k = id THEN DefaultColor ELSE s.playerColors[k]]
         IN [s EXCEPT !.playerColors = colors,
                      !.players = Append(s.players, NewPlayer(id)),
                      !.activePlayers = s.activePlayers + 1]

updatePlayerColor(s, id, color) ==
    [s EXCEPT !.playerColors = [k \in DOMAIN s.playerColors \cup {id} |->
                                   IF k = id THEN color ELSE s.playerColors[k]]]

removePlayer(s, id) ==
    LET idx == IndexOf(s.players, id) IN
    IF idx = 0 THEN s
    ELSE determineLeader(
           [s EXCEPT !.activePlayers = IF s.players[idx].active
                                       THEN s.activePlayers - 1 ELSE s.activePlayers,
                     !.players = FilterSeq(s.players,
                                     [i \in DOMAIN s.players |-> s.players[i].id # id]),
                     !.playerColors = [k \in DOMAIN s.playerColors \ {id} |->
                                          s.playerColors[k]]])

setDetectionThreshold(s, threshold) == [s EXCEPT !.detectionThreshold = threshold]

setDifficulty(s, level) ==
    LET d == getPhaseDurations(s, level) IN
    [s EXCEPT !.difficulty = level,
              !.detectionThreshold = getDetectionThreshold(level),
              !.moveDuration = d.move,
              !.freezeDuration = d.freeze]

\* Mutant of UpdatedPlayer: the record is rebuilt from a player object as it
\* was when the game started instead of from the store's current one.
UpdatedPlayerFromStart(currentPlayer, ph, pt) ==
    [currentPlayer EXCEPT !.position = pt,
                          !.lastPosition = IF ph = "MOVE" THEN currentPlayer.position
                                           ELSE IF ph = "FREEZE" THEN currentPlayer.lastPosition
                                           ELSE pt,
                          !.eliminated = FALSE]

\* Mutant of UpdatedPlayer: outside MOVE only the position is written, the
\* baseline is not kept in sync with it in SETUP.
UpdatedPlayerNoSync(currentPlayer, ph, pt) ==
    IF ph = "MOVE"
    THEN [currentPlayer EXCEPT !.position = pt, !.lastPosition = currentPlayer.position]
    ELSE [currentPlayer EXCEPT !.position = pt]

\* Mutant of UpdatedPlayer: lastPosition trails the position in every phase.
UpdatedPlayerTrailing(currentPlayer, ph, pt) ==
    IF ph \in {"MOVE", "FREEZE"}
    THEN [currentPlayer EXCEPT !.position = pt, !.lastPosition = currentPlayer.position]
    ELSE [currentPlayer EXCEPT !.position = pt, !.lastPosition = pt]

\* The player record written by updatePlayerPosition, by store phase.
UpdatedPlayer(currentPlayer, ph, pt) ==
    IF ph = "MOVE"
    THEN [currentPlayer EXCEPT !.position = pt, !.lastPosition = currentPlayer.position]
    ELSE IF ph = "FREEZE"
    THEN [currentPlayer EXCEPT !.position = pt]
    ELSE [currentPlayer EXCEPT !.position = pt, !.lastPosition = pt]

updatePlayerPosition(s, id, pt) ==
    LET playerIndex == IndexOf(s.players, id) IN
    IF playerIndex = 0 THEN s
    ELSE [s EXCEPT !.players[playerIndex] = UpdatedPlayer(s.players[playerIndex], s.phase, pt)]

\* Mutant of AwardSurvivors: the award is subtracted.
AwardSurvivorsMinus(ps, points) ==
    [i \in DOMAIN ps |->
        IF ps[i].eliminated THEN ps[i] ELSE [ps[i] EXCEPT !.score = ps[i].score - points]]

AwardSurvivors(ps, points) ==
    [i \in DOMAIN ps |->
        IF ps[i].eliminated THEN ps[i] ELSE [ps[i] EXCEPT !.score = ps[i].score + points]]

endGame(s) ==
    determineLeader(
        [s EXCEPT !.gameActive = FALSE,
                  !.phase = "GAME_OVER",
                  !.timerActive = FALSE,
                  !.players = AwardSurvivors(s.players, EndGameAward),
                  !.ended = TRUE])

\* movement > detectionThreshold for one player of the list
MovedTooMuch(player, threshold) ==
    MovementOver(calculateMovementSq(player.position, player.lastPosition), threshold)

\* Mutant of MotionEvaluator: the loop starts at the second player of the
\* list, whoever stands first is not evaluated.
MotionEvaluatorSkipFirst(s) ==
    LET hit == [i \in DOMAIN s.players |->
                   i > 1 /\ Survivor(s.players[i])
                   /\ MovedTooMuch(s.players[i], s.detectionThreshold)]
        updatedPlayers == [i \in DOMAIN s.players |->
                   IF hit[i] THEN [s.players[i] EXCEPT !.eliminated = TRUE]
                   ELSE s.players[i]]
        anyEliminated == \E i \in DOMAIN s.players : hit[i]
        remaining == Cardinality({i \in DOMAIN updatedPlayers : Survivor(updatedPlayers[i])})
        s0 == [s EXCEPT !.evals = s.evals + 1]
        s1 == IF anyEliminated
              THEN [s0 EXCEPT !.players = updatedPlayers, !.activePlayers = remaining]
              ELSE s0
        s2 == IF anyEliminated /\ remaining <= 1 THEN endGame(s1) ELSE s1
    IN determineLeader(s2)

\* The body of checkPlayerMovement behind its phase guard.
MotionEvaluator(s) ==
    LET hit == [i \in DOMAIN s.players |->
                   Survivor(s.players[i])
                   /\ MovedTooMuch(s.players[i], s.detectionThreshold)]
        updatedPlayers == [i \in DOMAIN s.players |->
                   IF hit[i] THEN [s.players[i] EXCEPT !.eliminated = TRUE]
                   ELSE s.players[i]]
        anyEliminated == \E i \in DOMAIN s.players : hit[i]
        remaining == Cardinality({i \in DOMAIN updatedPlayers : Survivor(updatedPlayers[i])})
        s0 == [s EXCEPT !.evals = s.evals + 1]
        s1 == IF anyEliminated
              THEN [s0 EXCEPT !.players = updatedPlayers, !.activePlayers = remaining]
              ELSE s0
        s2 == IF anyEliminated /\ remaining <= 1 THEN endGame(s1) ELSE s1
    IN determineLeader(s2)

\* Mutant of checkPlayerMovement: the phase guard is missing.
checkPlayerMovementUnguarded(s) == MotionEvaluator(s)

\* Mutant of checkPlayerMovement: the guard only excludes SETUP, so that the
\* evaluation also runs when the store is in MOVE.
checkPlayerMovementNotSetup(s) ==
    IF s.phase = "SETUP" THEN s ELSE MotionEvaluator(s)

checkPlayerMovement(s) ==
    IF s.phase # "FREEZE" THEN s ELSE MotionEvaluator(s)

eliminatePlayer(s, id) ==
    LET playerIndex == IndexOf(s.players, id) IN
    IF playerIndex = 0 THEN s
    ELSE LET updatedPlayers == [s.players EXCEPT ![playerIndex].eliminated = TRUE,
                                                 ![playerIndex].active = FALSE]
             newActivePlayers == s.activePlayers - 1
             s1 == [s EXCEPT !.players = updatedPlayers, !.activePlayers = newActivePlayers]
             s2 == IF newActivePlayers <= 1
                   THEN [s1 EXCEPT !.phase = "GAME_OVER",
                                   !.winner = IF \E i \in DOMAIN updatedPlayers : Survivor(updatedPlayers[i])
                                              THEN updatedPlayers[CHOOSE i \in DOMAIN updatedPlayers :
                                                       /\ Survivor(updatedPlayers[i])
                                                       /\ \A j \in 1..(i - 1) : ~Survivor(updatedPlayers[j])].id
                                              ELSE Null,
                                   !.gameActive = FALSE]
                   ELSE s1
         IN determineLeader(s2)

\* Mutant of startGame: the test for an empty player list is missing.
startGameUnguarded(s) ==
    determineLeader(
        [s EXCEPT !.players = [i \in DOMAIN s.players |->
                                  [s.players[i] EXCEPT !.score = 0,
                                                       !.eliminated = FALSE,
                                                       !.active = TRUE]],
                  !.activePlayers = Len(s.players),
                  !.winner = Null,
                  !.gameActive = TRUE,
                  !.phase = "MOVE",
                  !.currentRound = 1,
                  !.timeRemaining = getPhaseDurations(s, s.difficulty).move,
                  !.timerActive = TRUE,
                  !.ended = FALSE])

startGame(s) ==
    IF Len(s.players) < 1 THEN s
    ELSE determineLeader(
           [s EXCEPT !.players = [i \in DOMAIN s.players |->
                                     [s.players[i] EXCEPT !.score = 0,
                                                          !.eliminated = FALSE,
                                                          !.active = TRUE]],
                     !.activePlayers = Len(s.players),
                     !.winner = Null,
                     !.gameActive = TRUE,
                     !.phase = "MOVE",
                     !.currentRound = 1,
                     !.timeRemaining = getPhaseDurations(s, s.difficulty).move,
                     !.timerActive = TRUE,
                     !.ended = FALSE])

startRound(s) ==
    LET newPhase == IF s.phase = "FREEZE" THEN "MOVE" ELSE "FREEZE"
        d == getPhaseDurations(s, s.difficulty)
        duration == IF newPhase = "MOVE" THEN d.move ELSE d.freeze
    IN [s EXCEPT !.phase = newPhase, !.timeRemaining = duration, !.timerActive = TRUE]

endRound(s) ==
    LET s1 == IF s.phase = "FREEZE"
              THEN LET c == checkPlayerMovement(s)
                   IN [c EXCEPT !.players = AwardSurvivors(c.players, RoundAward)]
              ELSE s
        s2 == [s1 EXCEPT !.currentRound = (s1.currentRound % RoundWrap) + 1,
                         !.timerActive = FALSE]
    IN startRound(s2)

\* Mutant of resetGame: the player list is emptied instead of reset (what the
\* older store revision does).
resetGameClearPlayers(s) ==
    [s EXCEPT !.phase = "SETUP",
              !.currentRound = 0,
              !.gameActive = FALSE,
              !.timerActive = FALSE,
              !.winner = Null,
              !.timeRemaining = 0,
              !.players = <<>>,
              !.activePlayers = 0,
              !.leadingPlayer = Null,
              !.ended = FALSE]

resetGame(s) ==
    [s EXCEPT !.phase = "SETUP",
              !.currentRound = 0,
              !.gameActive = FALSE,
              !.timerActive = FALSE,
              !.winner = Null,
              !.timeRemaining = 0,
              !.players = [i \in DOMAIN s.players |->
                              [s.players[i] EXCEPT !.score = 0,
                                                   !.position = Origin,
                                                   !.lastPosition = Origin,
                                                   !.eliminated = FALSE,
                                                   !.active = TRUE]],
              !.activePlayers = Len(s.players),
              !.leadingPlayer = Null,
              !.ended = FALSE]

toggleTimer(s) == [s EXCEPT !.timerActive = ~s.timerActive]

Max(a, b) == IF a >= b THEN a ELSE b

\* Mutant of updateTimer: the guard on timerActive and gameActive is missing.
updateTimerUnguarded(s) ==
    LET newTime == Max(0, s.timeRemaining - TickMs)
        s1 == [s EXCEPT !.timeRemaining = newTime]
    IN IF newTime <= 0
       THEN endRound([s1 EXCEPT !.timerActive = FALSE])
       ELSE s1

updateTimer(s) ==
    IF ~s.timerActive \/ ~s.gameActive THEN s
    ELSE LET newTime == Max(0, s.timeRemaining - TickMs)
             s1 == [s EXCEPT !.timeRemaining = newTime]
         IN IF newTime <= 0
            THEN endRound([s1 EXCEPT !.timerActive = FALSE])
            ELSE s1


\* ------------------------------------------------------------------------
\* The tracking loop of Camera.tsx
\* ------------------------------------------------------------------------

\* What the trackPlayers closure reads of each captured player.
Captured(ps) ==
    [i \in DOMAIN ps |-> [id |-> ps[i].id, active |-> ps[i].active,
                          eliminated |-> ps[i].eliminated]]

\* for (const player of players) { ... updatePlayerPosition(...) } over the
\* captured list; det[k] is what findColorPosition returned for the k-th
\* captured player (NoPos for null).
RECURSIVE TrackLoopUnchecked(_, _, _, _, _)
\* The loop without "if (position)": what findColorPosition returned is
\* handed to updatePlayerPosition, null included.
TrackLoopUnchecked(s, captured, colors, det, k) ==
    IF k > Len(captured) THEN s
    ELSE LET player == captured[k]
             s1 == IF ~player.active \/ player.eliminated THEN s
                   ELSE IF player.id \notin colors THEN s
                   ELSE updatePlayerPosition(s, player.id, det[k])
         IN TrackLoopUnchecked(s1, captured, colors, det, k + 1)

RECURSIVE TrackLoop(_, _, _, _, _)
TrackLoop(s, captured, colors, det, k) ==
    IF k > Len(captured) THEN s
    ELSE LET player == captured[k]
             s1 == IF ~player.active \/ player.eliminated THEN s
                   ELSE IF player.id \notin colors THEN s
                   ELSE IF det[k] = NoPos THEN s
                   ELSE updatePlayerPosition(s, player.id, det[k])
         IN TrackLoop(s1, captured, colors, det, k + 1)

\* The captured players the loop looks for in the frame: findColorPosition is
\* only called for those that pass the two skips.
Tracked(captured, colors) ==
    {k \in DOMAIN captured : /\ captured[k].active
                             /\ ~captured[k].eliminated
                             /\ captured[k].id \in colors}

trackPlayers(s, capturedPhase, captured, colors, det) ==
    LET s1 == TrackLoop(s, captured, colors, det, 1)
    IN IF capturedPhase = "FREEZE" THEN checkPlayerMovement(s1) ELSE s1

\* ------------------------------------------------------------------------
\* The Frame Scanner of Camera.tsx (findColorPosition, first half)
\* ------------------------------------------------------------------------

colorThreshold == 50
DarkBelow == 80
BrightAbove == 350
WhiteAbove == 220
GreenAbove == 150

\* A weight of 1.0: weights are held in thousandths, rounded up, so that a
\* weight is positive, or at most 1, exactly when the held value is.
WeightOne == 1000

\* A sampled pixel: its colour, and whether its coordinates lie in the search
\* area of 100 pixels around the previous position.
Pixel(r, g, b, near) == [r |-> r, g |-> g, b |-> b, near |-> near]

isTargetColorBright(t) == t[1] + t[2] + t[3] > BrightAbove

\* r > 220 && g > 220 && b > 220, of the target or of a pixel.
isWhite(r, g, b) == r > WhiteAbove /\ g > WhiteAbove /\ b > WhiteAbove

\* g > 150 && g > r * 1.4 && g > b * 1.4, of the target or of a pixel.
isGreen(r, g, b) == g > GreenAbove /\ 5 * g > 7 * r /\ 5 * g > 7 * b

\* The three "continue" filters of both passes.
Skipped(t, p) ==
    \/ p.r + p.g + p.b < DarkBelow /\ ~isTargetColorBright(t)
    \/ ~isWhite(t[1], t[2], t[3]) /\ isWhite(p.r, p.g, p.b)
    \/ ~isGreen(t[1], t[2], t[3]) /\ isGreen(p.r, p.g, p.b)

\* Ten times the square of distance = sqrt(0.3 dR^2 + 0.4 dG^2 + 0.3 dB^2).
DistanceSq10(t, p) ==
    3 * (p.r - t[1]) * (p.r - t[1]) + 4 * (p.g - t[2]) * (p.g - t[2])
        + 3 * (p.b - t[3]) * (p.b - t[3])

\* distance < colorThreshold
WithinThreshold(t, p) == DistanceSq10(t, p) < 10 * colorThreshold * colorThreshold

ISqrt(n) == CHOOSE r \in 0..WeightOne : r * r <= n /\ (r + 1) * (r + 1) > n

\* weight = 1.0 - distance / colorThreshold, for a distance below the threshold.
Weight(t, p) ==
    LET k == WeightOne \div colorThreshold
    IN WeightOne - ISqrt((k * k * DistanceSq10(t, p)) \div 10)

\* weight * proximityBonus, proximityBonus = 1.5.
WithProximityBonus(w) == (3 * w + 1) \div 2

RECURSIVE ScanPass(_, _, _, _)
\* One pass over the sampled pixels from the i-th on: the matches pushed, in
\* order.  window tells the pass around the previous position, which visits
\* the pixels of the search area only and pushes weight * proximityBonus.
ScanPass(t, pixels, window, i) ==
    IF i > Len(pixels) THEN <<>>
    ELSE LET p == pixels[i]
             rest == ScanPass(t, pixels, window, i + 1)
         IN IF window /\ ~p.near THEN rest
            ELSE IF Skipped(t, p) THEN rest
            ELSE IF ~WithinThreshold(t, p) THEN rest
            ELSE <<[at |-> i,
                    weight |-> IF window THEN WithProximityBonus(Weight(t, p))
                               ELSE Weight(t, p)]>> \o rest

\* colorMatches after the two passes: the full frame is scanned only when
\* the pass around the previous position pushed nothing.
ScanFrame(t, pixels, prev) ==
    LET inWindow == IF prev THEN ScanPass(t, pixels, TRUE, 1) ELSE <<>>
        foundInPrevRegion == Len(inWindow) > 0
    IN IF foundInPrevRegion THEN inWindow ELSE ScanPass(t, pixels, FALSE, 1)

\* ------------------------------------------------------------------------
\* The Position Tracker of Camera.tsx (findColorPosition, second half)
\* ------------------------------------------------------------------------

\* Positions of the tracker are held in 1/SubPixel of a pixel.  A product with
\* 0.25 or 0.05 is rounded to the nearest held value, ties to the even one, as
\* the double-precision product and sum are rounded to the nearest double.
SubPixel == 16

\* smoothingFactor = 0.25 and tinyStep = 0.05, as divisors.
SmoothingDiv == 4
TinyStepDiv == 20

\* if (jumpDistance > 150)
JumpCap == 150

Abs(n) == IF n < 0 THEN 0 - n ELSE n

\* n / d rounded to the nearest whole number, ties to the even one (d > 0).
RoundDiv(n, d) ==
    LET q == IF n >= 0 THEN n \div d ELSE 0 - ((0 - n + d - 1) \div d)
        r == n - q * d
    IN IF 2 * r < d THEN q
       ELSE IF 2 * r > d THEN q + 1
       ELSE IF q % 2 = 0 THEN q ELSE q + 1

\* prev + (best - prev) * (1 / div)
Toward(prev, best, div) ==
    [x |-> prev.x + RoundDiv(best.x - prev.x, div),
     y |-> prev.y + RoundDiv(best.y - prev.y, div)]

\* Math.sqrt(dx^2 + dy^2) > cap, cap in pixels.
JumpOver(a, b, cap) ==
    (a.x - b.x) * (a.x - b.x) + (a.y - b.y) * (a.y - b.y)
        > (cap * SubPixel) * (cap * SubPixel)

\* A smoothing that adds the blended offset to the detection instead of the
\* previous position.
findColorPositionFromBest(prevPosition, bestCluster) ==
    IF bestCluster # NoPos /\ prevPosition # NoPos
    THEN LET d == Toward(prevPosition, bestCluster, SmoothingDiv)
             over == [x |-> bestCluster.x + (d.x - prevPosition.x),
                      y |-> bestCluster.y + (d.y - prevPosition.y)]
         IN [position |-> over, saved |-> over]
    ELSE IF bestCluster # NoPos
    THEN [position |-> bestCluster, saved |-> bestCluster]
    ELSE [position |-> prevPosition, saved |-> prevPosition]

\* findColorPosition from the best cluster on: bestCluster is the centre of
\* the best cluster, NoPos when fewer than minPixels matches were found;
\* prevPosition is prevPositions.current[playerId], NoPos when there is none.
\* position is what the call returns (NoPos for null), saved the entry of the
\* table after it.
findColorPosition(prevPosition, bestCluster) ==
    IF bestCluster # NoPos
    THEN IF prevPosition # NoPos
         THEN LET smoothedPosition == Toward(prevPosition, bestCluster, SmoothingDiv)
              IN IF JumpOver(smoothedPosition, prevPosition, JumpCap)
                 THEN LET tiny == Toward(prevPosition, bestCluster, TinyStepDiv)
                      IN [position |-> tiny, saved |-> tiny]
                 ELSE [position |-> smoothedPosition, saved |-> smoothedPosition]
         ELSE [position |-> bestCluster, saved |-> bestCluster]
    ELSE [position |-> prevPosition, saved |-> prevPosition]

\* The ids a table of previous positions is indexed by.
PlayerIds == {PlayerName[k] : k \in DOMAIN PlayerName}

\* prevPositions of a Camera component that has just been mounted.
NoTable == [id \in PlayerIds |-> NoPos]

RECURSIVE Located(_, _, _, _)
\* The calls of findColorPosition of one frame, in the order of the loop, from
\* the k-th captured player on: the table after them and what each returned.
\* raw[k] is the best cluster of the k-th captured player in the frame.
Located(acc, captured, raw, k) ==
    IF k > Len(captured) THEN acc
    ELSE IF k \notin DOMAIN raw THEN Located(acc, captured, raw, k + 1)
    ELSE LET id == captured[k].id
             res == findColorPosition(acc.table[id], raw[k])
         IN Located([table |-> [acc.table EXCEPT ![id] = res.saved],
                     out |-> [acc.out EXCEPT ![k] = res.position]],
                    captured, raw, k + 1)

\* The section of App.tsx that renders <Camera /> in a phase: each of the
\* three sections mounts a Camera of its own.
Section(ph) ==
    IF ph = "SETUP" THEN "menu"
    ELSE IF ph = "GAME_OVER" THEN "over"
    ELSE "game"

\* The table after the store went from phase `from` to phase `to` and App
\* rendered: a change of section unmounts the Camera and mounts another, whose
\* prevPositions ref starts empty.
Remounted(from, to, table) ==
    IF Section(from) # Section(to) THEN NoTable ELSE table

\* ------------------------------------------------------------------------
\* Initial state and actions
\* ------------------------------------------------------------------------

\* The store as create() builds it, and the refs of the components.
InitStore ==
    /\ phase = "SETUP"
    /\ difficulty = "medium"
    /\ currentRound = 0
    /\ cameraReady = FALSE
    /\ detectionThreshold = InitThreshold
    /\ playerColors = <<>>
    /\ players = <<>>
    /\ activePlayers = 0
    /\ leadingPlayer = Null
    /\ timerActive = FALSE
    /\ timeRemaining = 0
    /\ freezeDuration = InitDuration
    /\ moveDuration = InitDuration
    /\ gameActive = FALSE
    /\ winner = Null
    /\ trkRunning = FALSE
    /\ trkPhase = "SETUP"
    /\ trkPlayers = <<>>
    /\ trkColors = {}
    /\ evals = 0
    /\ ended = FALSE
    /\ freezeMoved = {}

\* A Camera that has located nobody yet.
InitCamera ==
    /\ prevPositions = NoTable
    /\ detection = <<>>
    /\ returned = <<>>
    /\ found = {}
    /\ frames = 0
    /\ stream = NoPos

\* No scan is in progress.
InitScanner ==
    /\ target = DefaultColor
    /\ frame = <<>>
    /\ hasPrev = FALSE
    /\ colorMatches = <<>>

\* No tracking loop has been started.
InitLoop ==
    /\ pending = {}
    /\ orphans = {}
    /\ animationFrame = 0
    /\ frameCount = 0
    /\ outcome = "none"
    /\ thrown = FALSE

Init == InitStore /\ InitCamera /\ InitScanner /\ InitLoop

\* Ids whose position differs between two player lists.
MovedIds(before, after) ==
    {before[i].id : i \in {j \in DOMAIN before :
        j \in DOMAIN after /\ after[j].position # before[j].position}}

\* freezeMoved: the players whose position changed during the FREEZE window
\* the store is in; empty outside FREEZE and at the entry of a window.
TrackGhost(s0, s1) ==
    freezeMoved' = IF s0.phase = "FREEZE" /\ s1.phase = "FREEZE"
                   THEN freezeMoved \cup MovedIds(s0.players, s1.players)
                   ELSE {}

\* The closure of the running loop shows the store as it is now.  React
\* re-runs the tracking effect after every store change; animation frames of
\* the old closure may still run before it does, timer ticks and clicks come
\* after it.
Fresh ==
    <<trkRunning, trkPhase, trkPlayers, trkColors>>
        = <<cameraReady, phase, Captured(players), DOMAIN playerColors>>

\* App.tsx addNewPlayer: the id is derived from the number of players.
AddNewPlayer ==
    /\ Fresh
    /\ phase = "SETUP"
    /\ Len(players) < MaxPlayers
    /\ LET playerId == PlayerName[Len(players) + 1]
       IN Commit(updatePlayerColor(addPlayer(Store, playerId), playerId, DefaultColor))
    /\ freezeMoved' = {}
    /\ UNCHANGED <<trkVars, camVars, scanVars, loopVars>>

RemovePlayer ==
    /\ Fresh
    /\ phase = "SETUP"
    /\ \E i \in DOMAIN players : Commit(removePlayer(Store, players[i].id))
    /\ freezeMoved' = {}
    /\ UNCHANGED <<trkVars, camVars, scanVars, loopVars>>

\* App.tsx: the threshold effect of the settings slider.
SetThreshold ==
    /\ Fresh
    /\ phase = "SETUP"
    /\ \E t \in ThresholdChoices :
          /\ t # detectionThreshold
          /\ Commit(setDetectionThreshold(Store, t))
    /\ freezeMoved' = {}
    /\ UNCHANGED <<trkVars, camVars, scanVars, loopVars>>

\* App.tsx applyPhaseDurations: setDifficulty('custom'), then setState of the
\* two durations (the settings hold whole seconds).
ApplyPhaseDurations ==
    /\ Fresh
    /\ phase = "SETUP"
    /\ \E m \in DurationSecs, f \in DurationSecs :
          /\ <<difficulty, moveDuration, freezeDuration>> # <<"custom", m * 1000, f * 1000>>
          /\ Commit([setDifficulty(Store, "custom") EXCEPT !.moveDuration = m * 1000,
                                                          !.freezeDuration = f * 1000])
    /\ freezeMoved' = {}
    /\ UNCHANGED <<trkVars, camVars, scanVars, loopVars>>

StartGame ==
    /\ Fresh
    /\ phase = "SETUP"
    /\ LET d == getPhaseDurations(Store, difficulty)
       IN d.move \in {m * 1000 : m \in DurationSecs}
          /\ d.freeze \in {f * 1000 : f \in DurationSecs}
    /\ Commit(startGame(Store))
    /\ freezeMoved' = {}
    /\ UNCHANGED <<trkVars, camVars, scanVars, loopVars>>

ResetGame ==
    /\ Fresh
    /\ phase # "SETUP"
    /\ Commit(resetGame(Store))
    /\ freezeMoved' = {}
    /\ UNCHANGED <<trkVars, camVars, scanVars, loopVars>>

\* App.tsx timer effect: setInterval(updateTimer, 100) while gameActive.
UpdateTimer ==
    /\ Fresh
    /\ gameActive
    /\ currentRound <= MaxRound
    /\ LET s == updateTimer(Store)
       IN /\ Commit(s)
          /\ TrackGhost(Store, s)
    /\ UNCHANGED <<trkVars, camVars, scanVars, loopVars>>

\* Camera.tsx setupCamera: the stream is acquired (or reused) and the store is
\* told setCameraReady(true).  Until then no tracking loop runs; a camera that
\* never becomes available is the behaviour in which this step never happens.
SetCameraReady ==
    /\ ~cameraReady
    /\ Commit([Store EXCEPT !.cameraReady = TRUE])
    /\ UNCHANGED <<trkVars, freezeMoved, camVars, scanVars, loopVars>>

\* The tracking effect re-runs after a render: the old loop is cancelled and
\* a new closure captures the rendered phase, players and playerColors.
Render ==
    /\ ~Fresh
    /\ trkRunning' = cameraReady
    /\ trkPhase' = phase
    /\ trkPlayers' = Captured(players)
    /\ trkColors' = DOMAIN playerColors
    /\ evals' = 0
    /\ UNCHANGED <<storeVars, ended, freezeMoved, camVars, scanVars, loopVars>>

\* One processed animation frame of the running loop.
TrackingTick ==
    /\ trkRunning
    /\ \E det \in [Tracked(trkPlayers, trkColors) -> Points \cup {NoPos}] :
          LET s == trackPlayers(Store, trkPhase, trkPlayers, trkColors, det)
          IN /\ Commit(s)
             /\ TrackGhost(Store, s)
    /\ UNCHANGED <<trkVars, camVars, scanVars, loopVars>>

Next ==
    \/ AddNewPlayer
    \/ RemovePlayer
    \/ SetThreshold
    \/ ApplyPhaseDurations
    \/ StartGame
    \/ ResetGame
    \/ UpdateTimer
    \/ SetCameraReady
    \/ Render
    \/ TrackingTick

Spec == Init /\ [][Next]_vars


\* ------------------------------------------------------------------------
\* The timer under fair scheduling
\* ------------------------------------------------------------------------

\* The timer tick can be taken: the interval is installed while gameActive,
\* and no game pauses its timer (gameActive implies timerActive), so that
\* this is ENABLED <<UpdateTimer>>_vars.
TimerDue == Fresh /\ gameActive /\ currentRound <= MaxRound

\* setInterval fires the timer callback every 100ms for as long as the game
\* is active, and React re-runs the tracking effect after every store change:
\* however many animation frames come in between, the next timer tick is
\* eventually delivered.  This is SF_vars(UpdateTimer), written with the
\* enabling condition of the tick.
SpecLive ==
    /\ Spec
    /\ WF_vars(Render)
    /\ ([]<>TimerDue => []<><<UpdateTimer>>_vars)

\* ------------------------------------------------------------------------
\* The store driven through its exported actions
\* ------------------------------------------------------------------------

\* Values the two duration inputs of the settings panel deliver: the handler
\* stores parseInt(value) || 5, so any non-zero integer that is typed,
\* negative ones included.
SettingSecs == {-1, 1}

\* A client of the store calls one of its actions.  No camera is attached:
\* nothing of the tracking loop runs and no position is ever reported.
ApiCall(s) ==
    /\ Commit(s)
    /\ freezeMoved' = {}
    /\ UNCHANGED <<trkVars, camVars, scanVars, loopVars>>

ApiAddPlayer ==
    /\ Len(players) < MaxPlayers
    /\ \E k \in 1..MaxPlayers : ApiCall(addPlayer(Store, PlayerName[k]))

ApiRemovePlayer ==
    \E i \in DOMAIN players : ApiCall(removePlayer(Store, players[i].id))

ApiEliminatePlayer ==
    /\ activePlayers >= 0
    /\ \E i \in DOMAIN players : ApiCall(eliminatePlayer(Store, players[i].id))

ApiToggleTimer == ApiCall(toggleTimer(Store))

ApiApplyPhaseDurations ==
    /\ phase = "SETUP"
    /\ \E m \in SettingSecs, f \in SettingSecs :
        ApiCall([setDifficulty(Store, "custom") EXCEPT !.moveDuration = m * 1000,
                                                      !.freezeDuration = f * 1000])

ApiStartGame ==
    /\ difficulty = "custom"
    /\ ApiCall(startGame(Store))

ApiResetGame == ApiCall(resetGame(Store))

ApiUpdateTimer ==
    /\ currentRound <= MaxRound
    /\ ApiCall(updateTimer(Store))

NextApi ==
    \/ ApiAddPlayer
    \/ ApiRemovePlayer
    \/ ApiEliminatePlayer
    \/ ApiToggleTimer
    \/ ApiApplyPhaseDurations
    \/ ApiStartGame
    \/ ApiResetGame
    \/ ApiUpdateTimer

SpecApi == Init /\ [][NextApi]_vars

\* ------------------------------------------------------------------------
\* The Camera with its Position Tracker
\* ------------------------------------------------------------------------

\* Frames processed by the tracking loop, and players registered, in the
\* behaviours of the tracker.
MaxFrames == 3
MaxTracked == 1

\* Centres of the best cluster a frame can deliver: the corner of the frame,
\* a point 600 pixels from it and one 800 pixels from it.
TrackPoints == {[x |-> 0, y |-> 0],
                [x |-> 360 * SubPixel, y |-> 480 * SubPixel],
                [x |-> 640 * SubPixel, y |-> 480 * SubPixel]}

\* A store change followed by the render of App.
CameraCall(s) ==
    /\ Commit(s)
    /\ freezeMoved' = {}
    /\ prevPositions' = Remounted(phase, s.phase, prevPositions)
    /\ UNCHANGED <<trkVars, detection, returned, found, frames, stream, scanVars, loopVars>>

\* App.tsx addNewPlayer.
CamAddNewPlayer ==
    /\ phase = "SETUP"
    /\ Len(players) < MaxTracked
    /\ LET playerId == PlayerName[Len(players) + 1]
       IN CameraCall(updatePlayerColor(addPlayer(Store, playerId), playerId, DefaultColor))

\* The remove button of a player in the menu.
CamRemovePlayer ==
    /\ phase = "SETUP"
    /\ \E i \in DOMAIN players : CameraCall(removePlayer(Store, players[i].id))

\* The start button of the menu.
CamStartGame ==
    /\ phase = "SETUP"
    /\ CameraCall(startGame(Store))

\* The reset buttons of the game and game-over sections.
CamResetGame ==
    /\ phase # "SETUP"
    /\ CameraCall(resetGame(Store))

\* One processed animation frame of the loop the mounted Camera runs, the
\* closure being the one of the last render: every tracked player is looked
\* for with findColorPosition, then reported.
CamFrame ==
    /\ cameraReady
    /\ frames < MaxFrames
    /\ LET captured == Captured(players)
           colors == DOMAIN playerColors
       IN \E raw \in [Tracked(captured, colors) -> TrackPoints \cup {NoPos}] :
             LET loc == Located([table |-> prevPositions,
                                 out |-> [k \in DOMAIN raw |-> NoPos]],
                                captured, raw, 1)
                 s == trackPlayers(Store, phase, captured, colors, loc.out)
             IN /\ Commit(s)
                /\ TrackGhost(Store, s)
                /\ prevPositions' = loc.table
                /\ detection' = raw
                /\ returned' = loc.out
                /\ found' = found \cup {captured[k].id :
                                          k \in {j \in DOMAIN raw : raw[j] # NoPos}}
    /\ frames' = frames + 1
    /\ UNCHANGED <<trkVars, stream, scanVars, loopVars>>

NextCamera ==
    \/ SetCameraReady
    \/ CamAddNewPlayer
    \/ CamRemovePlayer
    \/ CamStartGame
    \/ CamResetGame
    \/ CamFrame

SpecCamera == Init /\ [][NextCamera]_vars

\* ------------------------------------------------------------------------
\* The Position Tracker under a constant stream of detections
\* ------------------------------------------------------------------------

\* The player the stream is about.
StreamId == PlayerName[1]

\* The table holds a previous position for the player, and every frame
\* delivers the same best cluster.
InitStream ==
    /\ InitStore
    /\ InitScanner
    /\ InitLoop
    /\ \E prior \in TrackPoints : prevPositions = [NoTable EXCEPT ![StreamId] = prior]
    /\ stream \in TrackPoints
    /\ detection = <<>>
    /\ returned = <<>>
    /\ found = {StreamId}
    /\ frames = 0

\* One call of findColorPosition for the player.
StreamFrame ==
    /\ LET res == findColorPosition(prevPositions[StreamId], stream)
       IN /\ prevPositions' = [prevPositions EXCEPT ![StreamId] = res.saved]
          /\ returned' = <<res.position>>
    /\ detection' = <<stream>>
    /\ UNCHANGED <<storeVars, trkVars, ghostVars, found, frames, stream, scanVars, loopVars>>

NextStream == StreamFrame

\* The loop runs for as long as the Camera is mounted.
SpecStream == InitStream /\ [][NextStream]_vars /\ WF_vars(StreamFrame)

\* ------------------------------------------------------------------------
\* The Frame Scanner on one frame
\* ------------------------------------------------------------------------

\* Target colours: the default colour of a player, a dark one, white, green.
Targets == {DefaultColor, <<20, 20, 30>>, <<255, 255, 255>>, <<40, 200, 40>>}

\* Colours of the sampled pixels.
PixelColors == {DefaultColor, <<210, 60, 60>>, <<250, 100, 100>>,
                <<20, 20, 30>>, <<255, 255, 255>>}

\* A frame of two sampled pixels, the first inside the search area of the
\* previous position and the second outside it.
Frames ==
    {<<Pixel(a[1], a[2], a[3], TRUE), Pixel(b[1], b[2], b[3], FALSE)>> :
        a \in PixelColors, b \in PixelColors}

InitScan ==
    /\ InitStore
    /\ InitCamera
    /\ InitLoop
    /\ target \in Targets
    /\ frame \in Frames
    /\ hasPrev \in BOOLEAN
    /\ colorMatches = <<>>

\* The two passes of one call of findColorPosition.
Scan ==
    /\ frames = 0
    /\ colorMatches' = ScanFrame(target, frame, hasPrev)
    /\ frames' = 1
    /\ UNCHANGED <<storeVars, trkVars, ghostVars, prevPositions, detection,
                   returned, found, stream, target, frame, hasPrev, loopVars>>

NextScan == Scan

SpecScan == InitScan /\ [][NextScan]_vars

\* ------------------------------------------------------------------------
\* The animation-frame loop of the tracking effect
\* ------------------------------------------------------------------------

\* requestAnimationFrame: an id no held callback has.
NewHandle(held) == CHOOSE h \in 1..(Cardinality(held) + 1) : h \notin held

\* A cleanup that cancels nothing.
CleanupNoCancel(held, handle) == held

\* The effect cleanup, cancelAnimationFrame(animationFrame): the callbacks of
\* the stopped loop that the browser still holds.
Cleanup(held, handle) == held \ {handle}

\* A catch block that logs the error only.
CaughtNoSchedule(held, handle) == held

\* catch (error) { animationFrame = requestAnimationFrame(trackPlayers) }:
\* the callbacks of the loop held after it.
Caught(held, handle) == held \cup {handle}

\* App.tsx addNewPlayer, in the behaviours of the loop.
LoopAddNewPlayer ==
    /\ Fresh
    /\ phase = "SETUP"
    /\ Len(players) < MaxTracked
    /\ LET playerId == PlayerName[Len(players) + 1]
       IN Commit(updatePlayerColor(addPlayer(Store, playerId), playerId, DefaultColor))
    /\ freezeMoved' = {}
    /\ UNCHANGED <<trkVars, camVars, scanVars, loopVars>>

\* The tracking effect re-runs after a render in which one of its
\* dependencies is a new value (the player list is a new array after every
\* report of a position): its cleanup stops the old loop, and with the camera
\* ready a new loop is started by a first call of trackPlayers, which counts
\* frame 1, skips it and requests the next frame.
LoopRender ==
    /\ trkRunning' = cameraReady
    /\ trkPhase' = phase
    /\ trkPlayers' = Captured(players)
    /\ trkColors' = DOMAIN playerColors
    /\ evals' = 0
    /\ LET left == IF trkRunning THEN Cleanup(pending, animationFrame) ELSE pending
           h == NewHandle(orphans \cup left)
       IN /\ orphans' = orphans \cup left
          /\ pending' = IF cameraReady THEN {h} ELSE {}
          /\ animationFrame' = IF cameraReady THEN h ELSE 0
    /\ frameCount' = IF cameraReady THEN 1 ELSE 0
    /\ outcome' = "none"
    /\ thrown' = FALSE
    /\ UNCHANGED <<storeVars, ended, freezeMoved, camVars, scanVars>>

\* The browser runs a held callback of the running loop: trackPlayers counts
\* the frame, then skips it (odd count), or processes it, or an exception of
\* drawImage / getImageData takes it to the catch block.
LoopFrame ==
    /\ \E h \in pending :
          LET h2 == NewHandle((pending \ {h}) \cup orphans)
          IN \/ /\ frameCount = 1
                /\ outcome' = "skipped"
                /\ pending' = (pending \ {h}) \cup {h2}
                /\ animationFrame' = h2
                /\ UNCHANGED <<storeVars, ghostVars, thrown>>
             \/ /\ frameCount = 0
                /\ outcome' = "processed"
                /\ \E det \in [Tracked(trkPlayers, trkColors) -> Points \cup {NoPos}] :
                      LET s == trackPlayers(Store, trkPhase, trkPlayers, trkColors, det)
                      IN /\ Commit(s)
                         /\ TrackGhost(Store, s)
                /\ pending' = (pending \ {h}) \cup {h2}
                /\ animationFrame' = h2
                /\ UNCHANGED thrown
             \/ /\ frameCount = 0
                /\ outcome' = "threw"
                /\ pending' = Caught(pending \ {h}, h2)
                /\ animationFrame' = h2
                /\ thrown' = TRUE
                /\ UNCHANGED <<storeVars, ghostVars>>
    /\ frameCount' = 1 - frameCount
    /\ UNCHANGED <<trkVars, camVars, scanVars, orphans>>

NextLoop ==
    \/ SetCameraReady
    \/ LoopAddNewPlayer
    \/ ApplyPhaseDurations
    \/ StartGame
    \/ ResetGame
    \/ UpdateTimer
    \/ LoopRender
    \/ LoopFrame

SpecLoop == Init /\ [][NextLoop]_vars

\* ------------------------------------------------------------------------
\* Properties
\* ------------------------------------------------------------------------

\* Squared displacement of a player from the motion baseline.
DisplacementSq(p) ==
    (p.position.x - p.lastPosition.x) * (p.position.x - p.lastPosition.x)
        + (p.position.y - p.lastPosition.y) * (p.position.y - p.lastPosition.y)

Survivors(ps) == {i \in DOMAIN ps : ps[i].active /\ ~ps[i].eliminated}

\* The step is resetGame (the only step into SETUP); startGame is taken in
\* SETUP only.
ResetStep == phase # "SETUP" /\ phase' = "SETUP"

\* The step is the timer tick that lets a running FREEZE countdown run out
\* (the only other step that changes timeRemaining is resetGame).
FreezeExpiryStep ==
    /\ phase = "FREEZE"
    /\ gameActive
    /\ timerActive
    /\ timeRemaining <= TickMs
    /\ timeRemaining' # timeRemaining
    /\ ~ResetStep

\* C1: GAME_OVER is terminal with the timer stopped: once endGame has run,
\* the phase is GAME_OVER and the timer is inactive in every state until the
\* game is reset or started again, also when the game ended inside the
\* endRound call of a FREEZE expiry.
C1_GameOverTerminal == ended => (phase = "GAME_OVER" /\ ~timerActive)

\* C2: at every FREEZE timer expiry, if at most one active, non-eliminated
\* player is left after the evaluation, the phase after the step is GAME_OVER.
C2_RoundEndsOnFewSurvivors ==
    [][(FreezeExpiryStep /\ Cardinality(Survivors(players')) <= 1)
          => phase' = "GAME_OVER"]_vars

\* C3: when the game is over, winner is the id of the sole active,
\* non-eliminated player if exactly one is left, and null if none is left.
C3_WinnerRecorded ==
    phase = "GAME_OVER" =>
        /\ \A i \in DOMAIN players : Survivors(players) = {i} => winner = players[i].id
        /\ Survivors(players) = {} => winner = Null


\* C4: when the Motion Evaluator evaluates an active, non-eliminated player,
\* the player is eliminated by that step if and only if the distance between
\* position and lastPosition is strictly greater than detectionThreshold
\* (equal to the threshold, or 0, never eliminates).
C4_EliminationRule ==
    [][evals' > 0 =>
          \A i \in DOMAIN players :
              (players[i].active /\ ~players[i].eliminated) =>
                  (players'[i].eliminated
                      <=> DisplacementSq(players'[i]) > detectionThreshold * detectionThreshold)]_vars

\* C4 witness: an evaluation has just run and left a player in the game whose
\* displacement is exactly the (positive) threshold.
C4_Witness ==
    /\ evals > 0
    /\ \E i \in DOMAIN players :
          /\ ~players[i].eliminated
          /\ detectionThreshold > 0
          /\ DisplacementSq(players[i]) = detectionThreshold * detectionThreshold

\* C5: a player whose position did not change at any tracking tick of the
\* FREEZE window (freezeMoved) is not eliminated by a step of that window,
\* whatever the movement during the MOVE phase before.
C5_OnlyFreezeMovementEliminates ==
    [][\A i \in DOMAIN players :
          (phase = "FREEZE" /\ ~players[i].eliminated /\ players'[i].eliminated)
              => (players[i].id \in freezeMoved
                     \/ players'[i].position # players[i].position)]_vars

C7_EliminatedInactive ==
    \A i \in DOMAIN players : players[i].eliminated => ~players[i].active

\* C8: once a player is eliminated, no step other than resetGame/startGame
\* changes the player's position or lastPosition.
C8_EliminatedFrozen ==
    [][\A i \in DOMAIN players :
          (players[i].eliminated /\ ~ResetStep) =>
              /\ players'[i].position = players[i].position
              /\ players'[i].lastPosition = players[i].lastPosition]_vars

\* C9: once a player's eliminated flag is true, it stays true in every later
\* state until resetGame or the next startGame.
C9_EliminationOneWay ==
    [][\A i \in DOMAIN players :
          (players[i].eliminated /\ ~ResetStep) =>
              (i \in DOMAIN players' /\ players'[i].id = players[i].id
                  /\ players'[i].eliminated)]_vars

\* C9 witness: an eliminated player whose position was written after the
\* elimination (it differs from the position the evaluation compared).
C9_Witness ==
    \E i \in DOMAIN players :
        /\ players[i].eliminated
        /\ DisplacementSq(players[i]) <= detectionThreshold * detectionThreshold

\* C10: no step taken in MOVE, FREEZE or GAME_OVER, other than resetGame,
\* lowers the score of any player.
C10_ScoreMonotone ==
    [][(phase \in {"MOVE", "FREEZE", "GAME_OVER"} /\ ~ResetStep) =>
          \A i \in DOMAIN players :
              /\ i \in DOMAIN players'
              /\ players'[i].id = players[i].id
              /\ players'[i].score >= players[i].score]_vars

\* C10 witness: a game in which a player received both the round award and
\* the end-of-game award.
C10_Witness ==
    /\ ended
    /\ \E i \in DOMAIN players : players[i].score = EndGameAward + RoundAward

\* The step is a timer tick of the running countdown (the only other steps
\* that change timeRemaining are resetGame, and startGame when no game is
\* active).
TimerTickStep ==
    /\ gameActive
    /\ timerActive
    /\ timeRemaining' # timeRemaining
    /\ ~ResetStep

\* The timer tick that lets the running countdown run out.
TimerExpiryStep == TimerTickStep /\ timeRemaining <= TickMs

\* C11: at every FREEZE expiry each player who is not eliminated after the
\* evaluation has received the flat round award exactly once, whether or not
\* the evaluation ended the game, and each eliminated player has received
\* nothing.
C11_FlatSurvivorAward ==
    [][FreezeExpiryStep =>
          \A i \in DOMAIN players :
              /\ i \in DOMAIN players'
              /\ players'[i].score = IF players'[i].eliminated THEN players[i].score
                                     ELSE players[i].score + RoundAward]_vars

\* C12: every timer expiry is taken in MOVE or FREEZE; out of MOVE it leads to
\* FREEZE, out of FREEZE to MOVE or GAME_OVER, and it never leaves the phase
\* as it was.
C12_StrictAlternation ==
    [][TimerExpiryStep =>
          /\ phase \in {"MOVE", "FREEZE"}
          /\ phase = "MOVE" => phase' = "FREEZE"
          /\ phase = "FREEZE" => phase' \in {"MOVE", "GAME_OVER"}]_vars

\* C13: a timer tick changes the phase exactly when it lets the countdown run
\* out: the expiry changes the phase once, and the ticks that come before the
\* next countdown has run out change it no more.
C13_OneTransitionPerExpiry ==
    [][TimerTickStep => (phase' # phase <=> TimerExpiryStep)]_vars

\* C14: timeRemaining is never negative.
C14_TimeNeverNegative == timeRemaining >= 0

\* C15: in every state in which timerActive or gameActive is false (SETUP,
\* GAME_OVER, after resetGame, paused by toggleTimer), an updateTimer call
\* leaves the entire store unchanged.
C15_StoppedTimerNoOp ==
    (~timerActive \/ ~gameActive) => updateTimer(Store) = Store

\* C15 witness: a game paused by toggleTimer in the middle of a countdown.
C15_Witness ==
    /\ gameActive
    /\ ~timerActive
    /\ phase \in {"MOVE", "FREEZE"}
    /\ timeRemaining > 0
    /\ timeRemaining < moveDuration

\* C16: with the timer tick scheduled fairly, every MOVE phase of an active
\* game is followed by FREEZE and every FREEZE phase of an active game by
\* MOVE or GAME_OVER, unless the operator resets the game first (rounds
\* 1..MaxRound).
C16_PhaseProgress ==
    /\ (phase = "MOVE" /\ gameActive /\ currentRound <= MaxRound)
           ~> (phase \in {"FREEZE", "SETUP"})
    /\ (phase = "FREEZE" /\ gameActive /\ currentRound <= MaxRound)
           ~> (phase \in {"MOVE", "GAME_OVER", "SETUP"})

\* The step is startGame (the only step out of SETUP).
StartStep == phase = "SETUP" /\ phase' # "SETUP"

\* C17: startGame taken in SETUP with at least one player leads to MOVE in
\* round 1 with the game and the timer active, the countdown at the
\* configured MOVE duration, no winner, and every player active, not
\* eliminated, with score 0 and lastPosition equal to position.
C17_StartGame ==
    [][(StartStep /\ Len(players) >= 1) =>
          /\ phase' = "MOVE"
          /\ currentRound' = 1
          /\ gameActive'
          /\ timerActive'
          /\ timeRemaining' = moveDuration
          /\ winner' = Null
          /\ Len(players') = Len(players)
          /\ \A i \in DOMAIN players' :
                /\ players'[i].active
                /\ ~players'[i].eliminated
                /\ players'[i].score = 0
                /\ players'[i].lastPosition = players'[i].position]_vars

\* C17 witness: a game has just been started with a player that tracking had
\* placed away from the origin during SETUP.
C17_Witness ==
    /\ phase = "MOVE"
    /\ currentRound = 1
    /\ timeRemaining = moveDuration
    /\ \E i \in DOMAIN players :
          /\ players[i].position # Origin
          /\ players[i].lastPosition = players[i].position

\* The timer tick that lets the MOVE countdown run out.
MoveExpiryStep == TimerExpiryStep /\ phase = "MOVE"

\* C18: right after every MOVE expiry the store is in FREEZE, the countdown
\* is at the FREEZE duration and every player's lastPosition equals the
\* player's position.
C18_FreezeBaselineSnapshot ==
    [][MoveExpiryStep =>
          /\ phase' = "FREEZE"
          /\ timeRemaining' = freezeDuration
          /\ \A i \in DOMAIN players' :
                players'[i].lastPosition = players'[i].position]_vars

\* C19: no step taken while the store phase is MOVE or SETUP eliminates a
\* player, whichever phase it leads to (the MOVE expiry included) and
\* whichever phase the tracking closure that takes it has captured.
C19_NoEliminationOutsideFreeze ==
    [][(phase \in {"MOVE", "SETUP"}) =>
          \A i \in DOMAIN players' :
              players'[i].eliminated =>
                  (\E j \in DOMAIN players :
                      players[j].id = players'[i].id /\ players[j].eliminated)]_vars

\* C19 witness: the store is in MOVE, the tracking closure still holds
\* phase = FREEZE, and a player who is not eliminated is displaced by more
\* than the threshold: the displacement was written by a tick of that closure
\* (a displacement present at the FREEZE expiry would have eliminated).
C19_Witness ==
    /\ phase = "MOVE"
    /\ gameActive
    /\ trkRunning
    /\ trkPhase = "FREEZE"
    /\ \E i \in DOMAIN players :
          /\ ~players[i].eliminated
          /\ DisplacementSq(players[i]) > detectionThreshold * detectionThreshold

\* C20: a FREEZE expiry that leads to MOVE increments currentRound by exactly
\* 1 (from RoundWrap back to 1), a MOVE expiry that leads to FREEZE leaves it
\* unchanged, and it lies in 1..RoundWrap while a game is active.
C20_RoundCounter ==
    [][/\ (FreezeExpiryStep /\ phase' = "MOVE")
            => currentRound' = (currentRound % RoundWrap) + 1
       /\ (MoveExpiryStep /\ phase' = "FREEZE") => currentRound' = currentRound
       /\ gameActive' => currentRound' \in 1..RoundWrap]_vars

\* The ids of a player list, in order.
Ids(ps) == [i \in DOMAIN ps |-> ps[i].id]

\* C21: resetGame taken in MOVE, FREEZE or GAME_OVER leads to SETUP with the
\* game and the timer inactive, no winner, the same players, each not
\* eliminated, with score 0 and position equal to lastPosition; and a
\* startGame issued in the state reached enters MOVE with these players.
C21_ResetGame ==
    [][ResetStep =>
          /\ phase' = "SETUP"
          /\ ~gameActive'
          /\ ~timerActive'
          /\ winner' = Null
          /\ Ids(players') = Ids(players)
          /\ \A i \in DOMAIN players' :
                /\ ~players'[i].eliminated
                /\ players'[i].score = 0
                /\ players'[i].position = players'[i].lastPosition
          /\ (startGame(Store).phase)' = "MOVE"
          /\ (Ids(startGame(Store).players))' = Ids(players)]_vars

\* C21 witness: the game has just been reset in the middle of a FREEZE phase
\* in which a player was eliminated (the tracking closure still holds the
\* FREEZE phase and the eliminated player).
C21_Witness ==
    /\ phase = "SETUP"
    /\ currentRound = 0
    /\ trkPhase = "FREEZE"
    /\ \E i \in DOMAIN trkPlayers : trkPlayers[i].eliminated
    /\ \A i \in DOMAIN players : ~players[i].eliminated

\* C22: in every state with no registered player a startGame call leaves the
\* entire store unchanged.
C22_StartGameNoPlayers ==
    Len(players) = 0 => startGame(Store) = Store

\* C22 witness: no player is registered while a countdown is running (the
\* players were removed after the game was started).
C22_Witness ==
    /\ Len(players) = 0
    /\ phase = "MOVE"
    /\ gameActive
    /\ timerActive
    /\ timeRemaining > 0

\* C23: no step taken while the phase is MOVE or FREEZE changes the
\* registered player ids: addPlayer and removePlayer are no-ops there.
C23_RegistryFixedInRound ==
    [][(phase \in {"MOVE", "FREEZE"}) => Ids(players') = Ids(players)]_vars

\* The ids of the eliminated players of a list.
EliminatedIds(ps) == {ps[i].id : i \in {j \in DOMAIN ps : ps[j].eliminated}}

\* C24: in every FREEZE state the Motion Evaluator gives, for every
\* reordering of the player list, the same set of eliminated players and the
\* same phase; a player is eliminated after it exactly if the player was
\* eliminated before or is active and displaced by more than the threshold.
C24_OrderIndependence ==
    phase = "FREEZE" =>
        LET a == checkPlayerMovement(Store) IN
        /\ \A pi \in Permutations(DOMAIN players) :
              LET b == checkPlayerMovement(
                           [Store EXCEPT !.players = [i \in DOMAIN players |-> players[pi[i]]]])
              IN /\ EliminatedIds(b.players) = EliminatedIds(a.players)
                 /\ b.phase = a.phase
        /\ \A i \in DOMAIN players :
              players[i].id \in EliminatedIds(a.players)
                  <=> \/ players[i].eliminated
                      \/ /\ players[i].active
                         /\ DisplacementSq(players[i]) > detectionThreshold * detectionThreshold

\* C24 witness: an evaluation has run on a list of two players and has
\* eliminated the first and kept the second.
C24_Witness ==
    /\ evals = 1
    /\ Len(players) = 2
    /\ players[1].eliminated
    /\ ~players[2].eliminated
    /\ DisplacementSq(players[1]) > detectionThreshold * detectionThreshold

\* A step that processes one frame of the tracking loop.
FrameStep == frames' # frames

\* C25: once a player's first detection has succeeded, every later call of the
\* tracker for that player id returns a position (the previous one when
\* nothing is detected), and no missing position is written to the player.
C25_NoMissingPosition ==
    [][FrameStep =>
         /\ \A k \in DOMAIN returned' :
               players[k].id \in found => returned'[k] # NoPos
         /\ \A i \in DOMAIN players' : players'[i].position # NoPos]_vars

\* C26: a tracking tick that has no position for a player, the frame source
\* not being ready or the player having neither a previous position nor a
\* detection, leaves the player's position and lastPosition as they were.
C26_NoUpdateWithoutPosition ==
    [][FrameStep =>
         /\ cameraReady
         /\ \A k \in DOMAIN detection' :
               (prevPositions[players[k].id] = NoPos /\ detection'[k] = NoPos)
                  => /\ returned'[k] = NoPos
                     /\ players'[k].position = players[k].position
                     /\ players'[k].lastPosition = players[k].lastPosition]_vars

\* A frame found neither the registered player nor a previous position of
\* theirs, and the player is where they were registered.
C26_Witness ==
    /\ frames > 0
    /\ Len(players) > 0
    /\ detection = [k \in DOMAIN players |-> NoPos]
    /\ returned = [k \in DOMAIN players |-> NoPos]
    /\ \A k \in DOMAIN players :
          players[k].position = Origin /\ players[k].lastPosition = Origin

\* C27: for a player with a previous position, a detection farther from it
\* than the cap of 150 pixels moves the reported position by no more than the
\* fallback step, 5% of the offset.
C27_JumpGuard ==
    [][FrameStep =>
         \A k \in DOMAIN detection' :
            LET prior == prevPositions[players[k].id]
                d == detection'[k]
                r == returned'[k]
            IN (prior # NoPos /\ d # NoPos /\ JumpOver(d, prior, JumpCap))
                  => /\ TinyStepDiv * Abs(r.x - prior.x) <= Abs(d.x - prior.x) + TinyStepDiv
                     /\ TinyStepDiv * Abs(r.y - prior.y) <= Abs(d.y - prior.y) + TinyStepDiv]_vars

\* b lies between a and c, ends included.
Between(a, b, c) == (a <= b /\ b <= c) \/ (c <= b /\ b <= a)

\* The position is less than a pixel from the detection in both coordinates.
WithinAPixel(p, d) == Abs(d.x - p.x) < SubPixel /\ Abs(d.y - p.y) < SubPixel

\* C28, as the code has it: under a constant stream of detections D the
\* tracked position never moves away from D and never passes it, moves closer
\* in every coordinate that is a pixel or more from D, is what the call
\* returns, stays at D when it is at D, and ends less than a pixel from D.
C28_SmoothingApproach ==
    /\ [][LET p == prevPositions[StreamId]
              q == prevPositions'[StreamId]
          IN /\ Between(p.x, q.x, stream.x)
             /\ Between(p.y, q.y, stream.y)
             /\ Abs(stream.x - p.x) >= SubPixel => q.x # p.x
             /\ Abs(stream.y - p.y) >= SubPixel => q.y # p.y
             /\ returned' = <<q>>
             /\ p = stream => q = stream]_vars
    /\ <>[]WithinAPixel(prevPositions[StreamId], stream)

\* The stream has brought the position to rest next to D, not on it.
C28_Witness ==
    /\ returned = <<prevPositions[StreamId]>>
    /\ prevPositions[StreamId] # stream
    /\ WithinAPixel(prevPositions[StreamId], stream)
    /\ findColorPosition(prevPositions[StreamId], stream).saved = prevPositions[StreamId]

\* C28 as stated: the tracked position eventually equals D and stays there.
C28_ConvergesToDetection == <>[](prevPositions[StreamId] = stream)

\* The i-th sampled pixel was visited by the pass that produced colorMatches.
Visited(i) ==
    IF hasPrev /\ Len(ScanPass(target, frame, TRUE, 1)) > 0
    THEN frame[i].near
    ELSE TRUE

\* The matches pushed for the i-th sampled pixel.
MatchesAt(i) == {j \in DOMAIN colorMatches : colorMatches[j].at = i}

\* C29: a sampled pixel at colour distance 0 from the target is in the match
\* set with weight 1, and one at a distance of the threshold or more is not
\* in the match set.
C29_MatchMembership ==
    frames = 1 =>
        \A i \in DOMAIN frame :
            Visited(i) =>
               /\ DistanceSq10(target, frame[i]) = 0
                     => \E j \in MatchesAt(i) : colorMatches[j].weight = WeightOne
               /\ ~WithinThreshold(target, frame[i]) => MatchesAt(i) = {}

\* C30: every ColorMatch of the scanner, of the pass around the previous
\* position and of the full-frame pass, has a weight in (0, 1].
C30_WeightRange ==
    \A j \in DOMAIN colorMatches :
        0 < colorMatches[j].weight /\ colorMatches[j].weight <= WeightOne

\* C31: when the tracking loop is stopped by the cleanup of its effect, its
\* pending callback is cancelled, so no callback of a stopped loop is left to
\* process a frame or to call the store; at most one callback of the running
\* loop is pending at any time, after the exception path too.
C31_TrackingCancellation ==
    /\ orphans = {}
    /\ Cardinality(pending) <= 1
    /\ trkRunning => pending = {animationFrame}
    /\ ~trkRunning => pending = {}

\* A loop that reported a position has been stopped and the loop that
\* replaced it has not run a callback yet.
C31_Witness ==
    /\ trkRunning
    /\ outcome = "none"
    /\ pending = {animationFrame}
    /\ \E i \in DOMAIN players : players[i].position # Origin

\* A step in which the browser runs a callback of the running loop.
CallbackStep == frameCount' # frameCount /\ outcome' # "none"

\* C32: an exception while a frame is processed does not tear the loop down:
\* exactly one next callback is requested, the closure and the store are as
\* they were, and the loop goes on with its frames as it does after a frame
\* that raised nothing.
C32_ErrorIsolation ==
    [][/\ (CallbackStep /\ outcome' = "threw") =>
               (UNCHANGED <<storeVars, trkVars>> /\ frameCount' = 1)
       /\ thrown' =>
               (trkRunning' /\ pending' = {animationFrame'} /\ Cardinality(pending') = 1)
       /\ (CallbackStep /\ outcome = "threw") => outcome' = "skipped"
       /\ (CallbackStep /\ thrown /\ outcome = "skipped")
               => outcome' \in {"processed", "threw"}]_vars

\* The loop has processed a frame and reported a position after it caught an
\* exception.
C32_Witness ==
    /\ thrown
    /\ outcome = "processed"
    /\ trkRunning
    /\ freezeMoved # {}

\* What a tracking tick is not to write: of every player lastPosition,
\* eliminated and score, and of the store phase and timeRemaining.
NotOfTracking(s) ==
    <<[i \in DOMAIN s.players |->
          <<s.players[i].lastPosition, s.players[i].eliminated, s.players[i].score>>],
      s.phase, s.timeRemaining>>

\* The positions of the players other than the i-th.
OtherPositions(s, i) ==
    [j \in DOMAIN s.players \ {i} |-> s.players[j].position]

\* C33: a tracking tick writes only the position of the player it addresses:
\* updatePlayerPosition, and the frame of the loop that calls it, leave
\* lastPosition, eliminated, score, phase and timeRemaining as they were.
C33_SingleWriter ==
    /\ \A i \in DOMAIN players, pt \in Points :
          LET s == updatePlayerPosition(Store, players[i].id, pt)
          IN /\ NotOfTracking(s) = NotOfTracking(Store)
             /\ OtherPositions(s, i) = OtherPositions(Store, i)
    /\ \A det \in [Tracked(trkPlayers, trkColors) -> Points \cup {NoPos}] :
          NotOfTracking(trackPlayers(Store, trkPhase, trkPlayers, trkColors, det))
             = NotOfTracking(Store)

\* The ids of the players of a list.
IdSet(ps) == {ps[i].id : i \in DOMAIN ps}

\* C34: after removePlayer(id) or resetGame the Position Tracker holds no
\* previous position for the ids concerned, so that the next detection of a
\* player registered under such an id is accepted as it is.
C34_TrackStateLifecycle ==
    [][/\ (Len(players') < Len(players)) =>
             \A id \in IdSet(players) \ IdSet(players') : prevPositions'[id] = NoPos
       /\ ResetStep =>
             \A id \in IdSet(players) : prevPositions'[id] = NoPos]_vars

\* C35: the detection threshold in force is the operator's most recent
\* choice: 50 / 30 / 15 after setDifficulty(easy / medium / hard), the given
\* value after setDetectionThreshold, and selecting the custom difficulty, as
\* applying custom phase durations does, keeps a threshold the operator set.
C35_ThresholdInForce ==
    /\ setDifficulty(Store, "easy").detectionThreshold = 50
    /\ setDifficulty(Store, "medium").detectionThreshold = 30
    /\ setDifficulty(Store, "hard").detectionThreshold = 15
    /\ \A px \in ThresholdChoices :
          LET set == setDetectionThreshold(Store, px)
          IN /\ set.detectionThreshold = px
             /\ setDifficulty(set, "custom").detectionThreshold = px

\* The lastPosition of every player of a list.
LastPositions(ps) == [i \in DOMAIN ps |-> ps[i].lastPosition]

\* C36: while the store phase is FREEZE no tracking tick and no timer tick
\* short of the expiry changes the lastPosition of a player, whichever way
\* the two callbacks interleave.
C36_FreezeBaselineStable ==
    [][(phase = "FREEZE" /\ ~ResetStep /\ ~TimerExpiryStep)
          => LastPositions(players') = LastPositions(players)]_vars

\* A tracking tick has moved a player during FREEZE, timer ticks of the
\* countdown have run, and the player's baseline is where it was.
C36_Witness ==
    /\ phase = "FREEZE"
    /\ gameActive
    /\ timeRemaining < freezeDuration
    /\ freezeMoved # {}
    /\ \E i \in DOMAIN players :
          /\ players[i].id \in freezeMoved
          /\ players[i].position # players[i].lastPosition

\* C37: in every state the store reaches through its actions the
\* activePlayers counter is the number of players that are active and not
\* eliminated, and it is never negative.
C37_ActiveCount ==
    /\ activePlayers = Cardinality(Survivors(players))
    /\ activePlayers >= 0

\* C38: gameActive is true exactly when the phase is MOVE or FREEZE.
C38_GameActiveIffPlaying == gameActive <=> (phase \in {"MOVE", "FREEZE"})

\* C39: whenever players are registered, leadingPlayer is the id of a
\* registered player whose score no other player exceeds.
C39_LeaderIsTopScorer ==
    Len(players) > 0 =>
        \E i \in DOMAIN players :
            /\ players[i].id = leadingPlayer
            /\ \A j \in DOMAIN players : players[j].score <= players[i].score

\* ---------------------------------------------------------------------------
\* Registration in SETUP: the Add Player button, the remove buttons and the
\* colour scan of the Camera, with the colour of each registration a choice
\* of the operator (colour picker) or of the frame (detected colours).
\* ---------------------------------------------------------------------------

\* Colours a registration can carry: the initial newPlayerColor of App.tsx
\* and one other value of the picker / of a scanned frame.
NewColors == {DefaultColor, <<40, 60, 200>>}

\* generateRandomNumber(100, 999).toString(): two of the 900 ids.
ScanIds == {"100", "101"}

\* findDistinctColors returns at most maxColors colours; the scan registers
\* each of them under an id drawn independently.
MaxDetected == 2

Detections ==
    UNION {[1..n -> ScanIds \X NewColors] : n \in 1..MaxDetected}

\* detectedColors.forEach: addPlayer, then updatePlayerColor, per colour.
RECURSIVE RegisterDetected(_, _)
RegisterDetected(s, detected) ==
    IF detected = <<>> THEN s
    ELSE LET playerId == Head(detected)[1]
             color == Head(detected)[2]
         IN RegisterDetected(
                updatePlayerColor(addPlayer(s, playerId), playerId, color),
                Tail(detected))

\* App.tsx addNewPlayer with the colour the picker holds at the click.
SetupAddNewPlayer ==
    /\ phase = "SETUP"
    /\ Len(players) < MaxPlayers
    /\ \E color \in NewColors :
          LET playerId == PlayerName[Len(players) + 1]
          IN Commit(updatePlayerColor(addPlayer(Store, playerId), playerId, color))
    /\ UNCHANGED <<trkVars, freezeMoved, camVars, scanVars, loopVars>>

\* The remove button of a player of the list.
SetupRemovePlayer ==
    /\ phase = "SETUP"
    /\ \E i \in DOMAIN players : Commit(removePlayer(Store, players[i].id))
    /\ UNCHANGED <<trkVars, freezeMoved, camVars, scanVars, loopVars>>

\* Camera.tsx scanOutstandingColors, the timeout callback that registers.
ScanOutstandingColors ==
    /\ phase = "SETUP"
    /\ \E detected \in Detections : Commit(RegisterDetected(Store, detected))
    /\ UNCHANGED <<trkVars, freezeMoved, camVars, scanVars, loopVars>>

NextSetup == SetupAddNewPlayer \/ SetupRemovePlayer \/ ScanOutstandingColors

SpecSetup == Init /\ [][NextSetup]_vars

\* C40: a registration (Add Player click or colour scan; every step that does
\* not remove a player) leaves every already registered player and that
\* player's tracked colour as they were, and when it registers no new id it
\* changes nothing in the store.
C40_RegistrationIsolated ==
    [][(phase = "SETUP" /\ Len(players') >= Len(players)) =>
          (/\ \A i \in DOMAIN players :
                 /\ i \in DOMAIN players'
                 /\ players'[i] = players[i]
                 /\ players[i].id \in DOMAIN playerColors'
                 /\ playerColors'[players[i].id] = playerColors[players[i].id]
           /\ (IdSet(players') = IdSet(players) => UNCHANGED storeVars))]_vars

====
